---- MODULE Spec2Model ----
(***************************************************************************)
(* The arena scheduler of boardlaw (src/boardlaw/arena/multi.py): the      *)
(* Tracker that owns the slot pool, the Evaluator that drives it and       *)
(* aggregates per-matchup statistics, and the MockGame/test_tracker loop.  *)
(*                                                                         *)
(* Conventions.  Agents are the ordinals 0..n-1 of the identity list       *)
(* `names`, as in the tensors of the source.  Slots are numbered 1..n_envs *)
(* (the source numbers them from 0); a matrix is a function over the       *)
(* cells <<row, col>>.  A tensor operation is written out element by       *)
(* element, in the order the source applies it.                            *)
(***************************************************************************)
EXTENDS Integers, Sequences, FiniteSets, TLC

\* ------------------------------------------------------------------ bounds
\* Largest per-matchup target (n_envs_per) a construction is given.
MaxTarget == 2
\* Largest slot pool an Evaluator is constructed with.
MaxEnvs == 2
\* Largest slot pool a Tracker driven directly by a caller is constructed with.
MaxPool == 3
\* Longest game: MockGame's length, and the move by which an external
\* simulation has ended a game at the latest.
MaxLen == 2
\* Largest explicit max_dispatch handed to a Tracker.
MaxDispatch == 3
\* Most terminated slots a caller reusing its masks has had returned to it
\* again before it stops calling update.
MaxStale == 2
\* Most jobs submitted to the job manager.
MaxJobs == 3
\* Largest amount of a resource a machine offers or a job asks for.
MaxCapacity == 2

\* Tracker.__init__'s default max_dispatch, 32*1024.
DefaultMaxDispatch == 32768

\* live_indices' ceiling on the pool, 100*1024*1024.
MemoryCeiling == 104857600

\* The identity list the agents are drawn from (a prefix of it is used).
AllNames == <<"a", "b", "c">>

VARIABLES
    tracker,    \* the Tracker object: its fields
    worlds,     \* the simulation state: per slot, MockGame's count and history
    length,     \* MockGame's length (history.shape[1])
    stats,      \* Evaluator.stats: wins and moves per cell
    results,    \* every record Evaluator.step has returned, in order
    ret,        \* what Tracker.suggest returned, while the caller holds it
    fresh,      \* TRUE from a suggest until its mask is handed to update
    live0,      \* history: the pool as constructed
    termlog,    \* history: per binding, how often update returned it
    reported,   \* history: per slot, how often update turned it terminated
    hists,      \* test_tracker's hists: the histories of the ended games
    given,      \* the arguments of Tracker(...), while a construction is followed
    played,     \* history: per binding, what the slots bound to it were dealt
    audit,      \* history: per record of results, `played` of the pair it names
    stale,      \* history: the last update's mask held a terminated slot
    raised,     \* whether the last call raised instead of returning
    jobs,       \* the job manager's jobs.jobs(): the job records, in dict order
    machines    \* the job manager's machines.machines(): the machines, in dict order

vars == <<tracker, worlds, length, stats, results, ret, fresh, live0,
          termlog, reported, hists, given, played, audit, stale, raised,
          jobs, machines>>

\* ----------------------------------------------------------------- helpers
Idx(n) == 0..(n - 1)

Cells(n) == Idx(n) \X Idx(n)

RECURSIVE SumSeq(_)
SumSeq(s) == IF s = <<>> THEN 0 ELSE Head(s) + SumSeq(Tail(s))

RECURSIVE Concat(_)
Concat(ss) == IF ss = <<>> THEN <<>> ELSE Head(ss) \o Concat(Tail(ss))

\* The cells of an n x n tensor in the order nonzero() and boolean
\* indexing visit them.
RowMajor(n) == [k \in 1..(n * n) |-> <<(k - 1) \div n, (k - 1) % n>>]

MatSum(m, n) == SumSeq([k \in 1..(n * n) |-> m[RowMajor(n)[k]]])

MatMax(m, n) == CHOOSE v \in {m[c] : c \in Cells(n)} : \A c \in Cells(n) : m[c] <= v

\* t[mask] for a boolean mask over the leading dimension.
Pick(t, mask) == LET keep == SelectSeq([p \in 1..Len(t) |-> p], LAMBDA p : mask[p])
                 IN  [k \in 1..Len(keep) |-> t[keep[k]]]

\* mask.sum()
PopCount(mask) == Cardinality({p \in 1..Len(mask) : mask[p]})

\* ------------------------------------------------------------ scatter_add_
\* raveled = rows + width*cols
Raveled(width, idx) == idx[1] + width * idx[2]

\* The cell of a width-wide tensor that position `flat` of totals.view(-1) is.
Unravel(width, flat) == <<flat \div width, flat % width>>

\* totals.view(-1)[raveled] += vals: of the entries that address one cell,
\* only the last is added.
scatter_add__last_wins(totals, width, indices, vals) ==
    [c \in DOMAIN totals |->
        LET hits == {k \in 1..Len(indices) :
                        Unravel(width, Raveled(width, indices[k])) = c}
        IN  IF hits = {} THEN totals[c]
            ELSE totals[c] + vals[CHOOSE k \in hits : \A j \in hits : j <= k]]

scatter_add_(totals, width, indices, vals) ==
    [c \in DOMAIN totals |->
        totals[c] + SumSeq([k \in 1..Len(indices) |->
            IF Unravel(width, Raveled(width, indices[k])) = c THEN vals[k] ELSE 0])]

\* ------------------------------------------------------------ live_indices
\* live_indices without the repeat: one copy of every nonzero cell.
live_indices_one_each(residual, n) == SelectSeq(RowMajor(n), LAMBDA c : residual[c] # 0)

live_indices(residual, n) ==
    LET idxs == SelectSeq(RowMajor(n), LAMBDA c : residual[c] # 0)
        width == MatMax(residual, n)
        count(c) == Cardinality({k \in 0..(width - 1) : k < residual[c]})
    IN  Concat([i \in 1..Len(idxs) |-> [k \in 1..count(idxs[i]) |-> idxs[i]]])

\* ----------------------------------------------------------------- Tracker
\* Tracker.__init__ without line 50: the diagonal keeps what it was given.
Tracker__init__keeps_diagonal(n_envs_per, games_in, names, max_dispatch) ==
    LET n == Len(names)
        residual == [c \in Cells(n) |-> n_envs_per - games_in[c]]
        live == live_indices(residual, n)
    IN  [n_envs_per |-> n_envs_per, max_dispatch |-> max_dispatch, names |-> names,
         games |-> games_in, init_games |-> MatSum(games_in, n), live |-> live,
         n_envs |-> Len(live)]

\* Tracker.__init__ with line 50 clearing the diagonal instead.
Tracker__init__diagonal_zero(n_envs_per, games_in, names, max_dispatch) ==
    LET n == Len(names)
        games == [c \in Cells(n) |-> IF c[1] = c[2] THEN 0 ELSE games_in[c]]
        residual == [c \in Cells(n) |-> n_envs_per - games[c]]
        live == live_indices(residual, n)
    IN  [n_envs_per |-> n_envs_per, max_dispatch |-> max_dispatch, names |-> names,
         games |-> games, init_games |-> MatSum(games, n), live |-> live,
         n_envs |-> Len(live)]

Tracker__init__(n_envs_per, games_in, names, max_dispatch) ==
    LET n == Len(names)
        games == [c \in Cells(n) |-> IF c[1] = c[2] THEN n_envs_per ELSE games_in[c]]
        residual == [c \in Cells(n) |-> n_envs_per - games[c]]
        live == live_indices(residual, n)
    IN  [n_envs_per |-> n_envs_per, max_dispatch |-> max_dispatch, names |-> names,
         games |-> games, init_games |-> MatSum(games, n), live |-> live,
         n_envs |-> Len(live)]

report(self) ==
    LET n == Len(self.names)
    IN  [done |-> MatSum(self.games, n) - self.init_games,
         remaining |-> n * n * self.n_envs_per - MatSum(self.games, n),
         self |-> self]

\* masked = zeros_like(mask); masked[mask] = terminal
masked_of(terminal, mask) ==
    [p \in 1..Len(mask) |-> mask[p] /\ terminal[Cardinality({q \in 1..p : mask[q]})]]

\* update that ignores the terminal flags: self.live[mask] = -1.
update_kills_mask(self, terminal, mask) ==
    [terminated |-> Pick(self.live, mask),
     self |-> [self EXCEPT !.live = [p \in 1..Len(self.live) |->
                   IF mask[p] THEN <<-1, -1>> ELSE self.live[p]]]]

\* update that marks the first seat only: self.live[masked, 0] = -1.
update_first_seat(self, terminal, mask) ==
    LET masked == masked_of(terminal, mask)
    IN  [terminated |-> Pick(self.live, masked),
         self |-> [self EXCEPT !.live = [p \in 1..Len(self.live) |->
                       IF masked[p] THEN <<-1, self.live[p][2]>> ELSE self.live[p]]]]

\* update that also takes every terminated game out of the progress matrix:
\* self.games[pair] -= 1 for each pair in terminated.
update_forgets_games(self, terminal, mask) ==
    LET masked == masked_of(terminal, mask)
        terminated == Pick(self.live, masked)
    IN  [terminated |-> terminated,
         self |-> [self EXCEPT
                     !.live = [p \in 1..Len(self.live) |->
                                  IF masked[p] THEN <<-1, -1>> ELSE self.live[p]],
                     !.games = [c \in DOMAIN self.games |->
                                  self.games[c] - Cardinality(
                                      {k \in 1..Len(terminated) : terminated[k] = c})]]]

\* update with `-=` for `=`: self.live[masked] -= 1.
update_decrements(self, terminal, mask) ==
    LET masked == masked_of(terminal, mask)
    IN  [terminated |-> Pick(self.live, masked),
         self |-> [self EXCEPT !.live = [p \in 1..Len(self.live) |->
                       IF masked[p] THEN <<self.live[p][1] - 1, self.live[p][2] - 1>>
                       ELSE self.live[p]]]]

update(self, terminal, mask) ==
    LET masked == masked_of(terminal, mask)
    IN  [terminated |-> Pick(self.live, masked),
         self |-> [self EXCEPT !.live = [p \in 1..Len(self.live) |->
                       IF masked[p] THEN <<-1, -1>> ELSE self.live[p]]]]

\* finished with .any() for .all().
finished_any(self) == \E p \in 1..Len(self.live) : \E s \in 1..2 : self.live[p][s] = -1

\* finished that wants a slot to look at: live.numel() > 0 and (...).all().
finished_nonempty(self) ==
    /\ Len(self.live) > 0
    /\ \A p \in 1..Len(self.live) : \A s \in 1..2 : self.live[p][s] = -1

finished(self) == \A p \in 1..Len(self.live) : \A s \in 1..2 : self.live[p][s] = -1

\* An argmax that returns the last of the maximal entries.
argmax_last(totals, n) ==
    CHOOSE a \in Idx(n) : /\ \A b \in Idx(n) : totals[b] <= totals[a]
                          /\ \A b \in Idx(n) : b > a => totals[b] < totals[a]

\* totals.argmax(): the first of the maximal entries.
argmax(totals, n) ==
    CHOOSE a \in Idx(n) : /\ \A b \in Idx(n) : totals[b] <= totals[a]
                          /\ \A b \in Idx(n) : b < a => totals[b] < totals[a]

\* No cut at all.
truncate_nothing(mask, max_dispatch) == mask

\* A cut that counts from the end: the highest-index matches are kept.
truncate_from_end(mask, max_dispatch) ==
    [p \in 1..Len(mask) |->
        mask[p] /\ Cardinality({q \in p..Len(mask) : mask[q]}) < max_dispatch]

\* mask & (mask.cumsum(0) < max_dispatch)
truncate(mask, max_dispatch) ==
    [p \in 1..Len(mask) |->
        mask[p] /\ Cardinality({q \in 1..p : mask[q]}) < max_dispatch]

\* The per-agent counts of due live slots that suggest takes the argmax of.
due_totals(self, seats) ==
    LET active == [p \in 1..Len(self.live) |-> self.live[p][seats[p] + 1]]
    IN  [a \in Idx(Len(self.names)) |->
            Cardinality({p \in 1..Len(active) : active[p] > -1 /\ active[p] = a})]

\* suggest with (active <= suggestion) for (active == suggestion).
suggest_at_most(self, seats) ==
    LET n == Len(self.names)
        active == [p \in 1..Len(self.live) |-> self.live[p][seats[p] + 1]]
        suggestion == argmax(due_totals(self, seats), n)
        mask == truncate([p \in 1..Len(active) |-> active[p] <= suggestion],
                         self.max_dispatch)
    IN  [name |-> self.names[suggestion + 1], mask |-> mask,
         live |-> Pick(self.live, mask), self |-> self]

\* suggest that marks what it dispatches as terminated.
suggest_marking(self, seats) ==
    LET n == Len(self.names)
        active == [p \in 1..Len(self.live) |-> self.live[p][seats[p] + 1]]
        suggestion == argmax(due_totals(self, seats), n)
        mask == truncate([p \in 1..Len(active) |-> active[p] = suggestion],
                         self.max_dispatch)
    IN  [name |-> self.names[suggestion + 1], mask |-> mask,
         live |-> Pick(self.live, mask),
         self |-> [self EXCEPT !.live = [p \in 1..Len(self.live) |->
                       IF mask[p] THEN <<-1, -1>> ELSE self.live[p]]]]

suggest(self, seats) ==
    LET n == Len(self.names)
        active == [p \in 1..Len(self.live) |-> self.live[p][seats[p] + 1]]
        suggestion == argmax(due_totals(self, seats), n)
        mask == truncate([p \in 1..Len(active) |-> active[p] = suggestion],
                         self.max_dispatch)
    IN  [name |-> self.names[suggestion + 1], mask |-> mask,
         live |-> Pick(self.live, mask), self |-> self]

\* The agents totals.argmax() may return under some rule for ties: those
\* with the largest count.
TieBreaks(totals, n) == {a \in Idx(n) : \A b \in Idx(n) : totals[b] <= totals[a]}

\* suggest with the index of the maximum handed in, for a rule other than
\* argmax's to be tried.
suggest_with(self, seats, suggestion) ==
    LET active == [p \in 1..Len(self.live) |-> self.live[p][seats[p] + 1]]
        mask == truncate([p \in 1..Len(active) |-> active[p] = suggestion],
                         self.max_dispatch)
    IN  [name |-> self.names[suggestion + 1], mask |-> mask,
         live |-> Pick(self.live, mask), self |-> self]

\* ---------------------------------------------------------------- MockGame
MockGame_initial(n_envs, len) ==
    [count |-> [p \in 1..n_envs |-> 0],
     history |-> [p \in 1..n_envs |-> [m \in 1..len |-> -1]]]

\* MockGame.seats
seats_of(w) == [p \in 1..Len(w.count) |-> w.count[p] % 2]

\* worlds[mask], transitions, hist = worlds[mask].step(actions): every masked
\* slot writes its action at position count, counts one move and is terminal
\* when the count reaches the length; a terminal slot's count restarts at 0.
MockGame_step(w, len, mask, action) ==
    LET history == [p \in 1..Len(w.count) |->
                       IF mask[p] THEN [w.history[p] EXCEPT ![w.count[p] + 1] = action]
                       ELSE w.history[p]]
        terminal == [p \in 1..Len(w.count) |-> mask[p] /\ w.count[p] + 1 = len]
    IN  [world |-> [count |-> [p \in 1..Len(w.count) |->
                        IF ~mask[p] THEN w.count[p]
                        ELSE IF terminal[p] THEN 0 ELSE w.count[p] + 1],
                    history |-> history],
         terminal |-> Pick(terminal, mask),
         hist |-> Pick(history, terminal)]

\* MockAgent(id): every action is the agent's id, its ordinal in the list.
MockAgent(names, name) == CHOOSE i \in Idx(Len(names)) : names[i + 1] = name

\* --------------------------------------------------------------- Evaluator
\* The reward vectors the simulation may hand back for a slot.
RewardVectors == {<<0, 0>>, <<1, -1>>, <<-1, 1>>, <<1, 1>>}

Evaluator__init__stats(n_agents) ==
    [wins |-> [c \in Cells(n_agents) |-> <<0, 0>>],
     moves |-> [c \in Cells(n_agents) |-> 0]]

\* record taking every nonzero reward for a win: wins = (rewards != 0).
record_nonzero_rewards(st, self, rewards, live) ==
    LET n == Len(self.names)
        wins == [k \in 1..Len(rewards) |->
                    [s \in 1..2 |-> IF rewards[k][s] # 0 THEN 1 ELSE 0]]
        w0 == scatter_add_([c \in Cells(n) |-> st.wins[c][1]], n, live,
                           [k \in 1..Len(wins) |-> wins[k][1]])
        w1 == scatter_add_([c \in Cells(n) |-> st.wins[c][2]], n, live,
                           [k \in 1..Len(wins) |-> wins[k][2]])
        moves == scatter_add_(st.moves, n, live, [k \in 1..Len(live) |-> 1])
        done == [c \in Cells(n) |-> w0[c] + w1[c] = self.n_envs_per]
        cells == SelectSeq(RowMajor(n), LAMBDA c : done[c])
    IN  [results |-> [i \in 1..Len(cells) |->
                         [names |-> <<self.names[cells[i][1] + 1], self.names[cells[i][2] + 1]>>,
                          wins |-> <<w0[cells[i]], w1[cells[i]]>>,
                          moves |-> moves[cells[i]],
                          games |-> w0[cells[i]] + w1[cells[i]]]],
         stats |-> [wins |-> [c \in Cells(n) |->
                                 IF done[c] THEN <<-1, -1>> ELSE <<w0[c], w1[c]>>],
                    moves |-> moves]]

\* Evaluator.record without the wall-clock column: the updated stats and the
\* records of the cells whose wins now add up to n_envs_per, in row-major
\* order; those cells' wins are then set to -1.
record(st, self, rewards, live) ==
    LET n == Len(self.names)
        wins == [k \in 1..Len(rewards) |->
                    [s \in 1..2 |-> IF rewards[k][s] = 1 THEN 1 ELSE 0]]
        w0 == scatter_add_([c \in Cells(n) |-> st.wins[c][1]], n, live,
                           [k \in 1..Len(wins) |-> wins[k][1]])
        w1 == scatter_add_([c \in Cells(n) |-> st.wins[c][2]], n, live,
                           [k \in 1..Len(wins) |-> wins[k][2]])
        moves == scatter_add_(st.moves, n, live, [k \in 1..Len(live) |-> 1])
        done == [c \in Cells(n) |-> w0[c] + w1[c] = self.n_envs_per]
        cells == SelectSeq(RowMajor(n), LAMBDA c : done[c])
    IN  [results |-> [i \in 1..Len(cells) |->
                         [names |-> <<self.names[cells[i][1] + 1], self.names[cells[i][2] + 1]>>,
                          wins |-> <<w0[cells[i]], w1[cells[i]]>>,
                          moves |-> moves[cells[i]],
                          games |-> w0[cells[i]] + w1[cells[i]]]],
         stats |-> [wins |-> [c \in Cells(n) |->
                                 IF done[c] THEN <<-1, -1>> ELSE <<w0[c], w1[c]>>],
                    moves |-> moves]]

\* self.worlds[mask] after the external simulation's step: a masked slot has
\* made one more move, and starts a new game when the step was terminal.
world_step(w, mask, terminal) ==
    LET masked == masked_of(terminal, mask)
    IN  [w EXCEPT !.count = [p \in 1..Len(w.count) |->
            IF ~mask[p] THEN w.count[p]
            ELSE IF masked[p] THEN 0 ELSE w.count[p] + 1]]

\* ------------------------------------------------------------ history
\* termlog after update returned `terminated`.
Logged(log, terminated) ==
    [b \in DOMAIN log |->
        log[b] + Cardinality({k \in 1..Len(terminated) : terminated[k] = b})]

Bindings(n) == Cells(n) \cup {<<-1, -1>>}

\* `played` after the slots bound to `live` were advanced and dealt `rewards`.
Dealt(was, live, rewards) ==
    [b \in DOMAIN was |->
        [wins |-> [s \in 1..2 |-> was[b].wins[s] + Cardinality(
                      {k \in 1..Len(live) : live[k] = b /\ rewards[k][s] = 1})],
         moves |-> was[b].moves + Cardinality({k \in 1..Len(live) : live[k] = b})]]

\* The pair of ordinals a record's names stand for.
Named(names, rec) ==
    CHOOSE c \in Cells(Len(names)) :
        rec.names = <<names[c[1] + 1], names[c[2] + 1]>>

\* Per record, what the slots bound to the pair it names have been dealt.
Audited(now, names, recs) == [i \in 1..Len(recs) |-> now[Named(names, recs[i])]]

\* ------------------------------------------------------------------ inputs
Names(n) == SubSeq(AllNames, 1, n)

OffDiagonal(n) == {c \in Cells(n) : c[1] # c[2]}

\* The progress matrices over n agents with entries in 0..t (the diagonal
\* holding one value) that leave at most cap games to play.
GamesInputs(n, t, cap) ==
    {g \in {[c \in Cells(n) |-> IF c[1] = c[2] THEN d ELSE off[c]] :
                off \in [OffDiagonal(n) -> 0..t], d \in 0..t} :
        SumSeq([k \in 1..(n * n) |->
            IF RowMajor(n)[k][1] = RowMajor(n)[k][2] THEN 0
            ELSE t - g[RowMajor(n)[k]]]) <= cap}

\* games = pd.DataFrame(0, list(agents), list(agents))
ZeroGames(n) == [c \in Cells(n) |-> 0]

NoRet == [name |-> "", mask |-> <<>>, live |-> <<>>]

\* The constructor's arguments are not followed.
NoArgs == [n_envs_per |-> 0, games |-> <<>>, names |-> <<>>, max_dispatch |-> 0]

\* Nothing dealt yet: per binding, the rewards of exactly 1 each seat of its
\* slots received and the number of times one of its slots was advanced.
NothingPlayed(n) == [b \in Cells(n) |-> [wins |-> <<0, 0>>, moves |-> 0]]

InitHistory ==
    /\ live0 = tracker.live
    /\ termlog = [b \in Bindings(Len(tracker.names)) |-> 0]
    /\ reported = [p \in 1..tracker.n_envs |-> 0]
    /\ hists = <<>>
    /\ ret = NoRet
    /\ fresh = FALSE
    /\ given = NoArgs
    /\ played = NothingPlayed(Len(tracker.names))
    /\ audit = <<>>
    /\ stale = FALSE
    /\ raised = FALSE
    /\ jobs = <<>>
    /\ machines = <<>>

\* Evaluator.finished
Evaluator_finished(self) == finished(self)

\* --------------------------------------------------- the Evaluator's run
\* Evaluator(worldfunc, agents, games, n_envs_per): the tracker with the
\* default max_dispatch, worlds at the start of their games, zero stats.
Init ==
    /\ \E n \in 1..Len(AllNames), t \in 0..MaxTarget :
         \E g \in GamesInputs(n, t, MaxEnvs) :
            tracker = Tracker__init__(t, g, Names(n), DefaultMaxDispatch)
    /\ length = MaxLen
    /\ worlds = MockGame_initial(tracker.n_envs, length)
    /\ stats = Evaluator__init__stats(Len(tracker.names))
    /\ results = <<>>
    /\ InitHistory

\* One Evaluator.step() of the loop `while not evaluator.finished()`.  The
\* worlds' seats alternate within a game as MockGame's do; the simulation
\* answers with any terminal flags and reward vectors, ending a game at its
\* MaxLen-th move at the latest.
step ==
    /\ ~Evaluator_finished(tracker)
    /\ \E s \in {suggest(tracker, seats_of(worlds))} :
       \E slots \in {SelectSeq([p \in 1..Len(s.mask) |-> p], LAMBDA p : s.mask[p])} :
       \E terminal \in [1..Len(slots) -> BOOLEAN],
          rewards \in [1..Len(slots) -> RewardVectors] :
           /\ \A k \in 1..Len(slots) :
                  worlds.count[slots[k]] + 1 >= MaxLen => terminal[k]
           /\ \E u \in {update(s.self, terminal, s.mask)} :
              \E r \in {record(stats, u.self, rewards, s.live)} :
              \E masked \in {masked_of(terminal, s.mask)} :
                  /\ tracker' = u.self
                  /\ worlds' = world_step(worlds, s.mask, terminal)
                  /\ stats' = r.stats
                  /\ results' = results \o r.results
                  /\ termlog' = Logged(termlog, u.terminated)
                  /\ reported' = [p \in 1..Len(reported) |->
                         reported[p] + IF masked[p] THEN 1 ELSE 0]
                  /\ \E now \in {Dealt(played, s.live, rewards)} :
                         /\ played' = now
                         /\ audit' = audit \o Audited(now, u.self.names, r.results)
    /\ UNCHANGED <<jobs, machines, length, live0, hists, ret, fresh, given, stale, raised>>

Next == step

Spec == Init /\ [][Next]_vars

\* ------------------------------------ the Evaluator over a trivial game
\* The Evaluator over a simulation whose games last `length` moves and end
\* with seat 0 winning: the only reward of 1 is seat 0's, on the last move.
\* Every pair starts from the same progress.
ScenarioNames == <<"a", "b", "c", "d">>

UniformGames(n, k) == [c \in Cells(n) |-> k]

InitScenario ==
    /\ \E n \in 1..Len(ScenarioNames), t \in 0..MaxTarget :
         \E k \in 0..t :
            tracker = Tracker__init__(t, UniformGames(n, k),
                                      SubSeq(ScenarioNames, 1, n), DefaultMaxDispatch)
    /\ length \in 1..MaxLen
    /\ worlds = MockGame_initial(tracker.n_envs, length)
    /\ stats = Evaluator__init__stats(Len(tracker.names))
    /\ results = <<>>
    /\ InitHistory

\* transitions.terminal of the trivial game for the dispatched slots.
Scenario_terminal(w, len, slots) == [k \in 1..Len(slots) |-> w.count[slots[k]] + 1 = len]

\* transitions.rewards of the trivial game.
Scenario_rewards(terminal) ==
    [k \in 1..Len(terminal) |-> IF terminal[k] THEN <<1, -1>> ELSE <<0, 0>>]

\* One Evaluator.step() of the loop `while not evaluator.finished()`.
ScenarioStep ==
    /\ ~Evaluator_finished(tracker)
    /\ \E s \in {suggest(tracker, seats_of(worlds))} :
       \E slots \in {SelectSeq([p \in 1..Len(s.mask) |-> p], LAMBDA p : s.mask[p])} :
       \E terminal \in {Scenario_terminal(worlds, length, slots)} :
       \E rewards \in {Scenario_rewards(terminal)} :
       \E u \in {update(s.self, terminal, s.mask)} :
       \E r \in {record(stats, u.self, rewards, s.live)} :
       \E masked \in {masked_of(terminal, s.mask)} :
       \E now \in {Dealt(played, s.live, rewards)} :
           /\ tracker' = u.self
           /\ worlds' = world_step(worlds, s.mask, terminal)
           /\ stats' = r.stats
           /\ results' = results \o r.results
           /\ termlog' = Logged(termlog, u.terminated)
           /\ reported' = [p \in 1..Len(reported) |->
                  reported[p] + IF masked[p] THEN 1 ELSE 0]
           /\ played' = now
           /\ audit' = audit \o Audited(now, u.self.names, r.results)
    /\ UNCHANGED <<jobs, machines, length, live0, hists, ret, fresh, given, stale, raised>>

NextScenario == ScenarioStep

SpecScenario == InitScenario /\ [][NextScenario]_vars

\* The loop keeps running while its condition holds.
FairSpecScenario == SpecScenario /\ WF_vars(ScenarioStep)

\* ------------------------------------------- a run under any rule for ties
\* Evaluator.step() over the trivial game, the agent of the tick being any
\* of those with the largest due count: argmax's first, the last, or any
\* other rule's choice, tick by tick.
TieStep ==
    /\ ~Evaluator_finished(tracker)
    /\ \E suggestion \in TieBreaks(due_totals(tracker, seats_of(worlds)),
                                    Len(tracker.names)) :
       \E s \in {suggest_with(tracker, seats_of(worlds), suggestion)} :
       \E slots \in {SelectSeq([p \in 1..Len(s.mask) |-> p], LAMBDA p : s.mask[p])} :
       \E terminal \in {Scenario_terminal(worlds, length, slots)} :
       \E rewards \in {Scenario_rewards(terminal)} :
       \E u \in {update(s.self, terminal, s.mask)} :
       \E r \in {record(stats, u.self, rewards, s.live)} :
       \E masked \in {masked_of(terminal, s.mask)} :
       \E now \in {Dealt(played, s.live, rewards)} :
           /\ tracker' = u.self
           /\ worlds' = world_step(worlds, s.mask, terminal)
           /\ stats' = r.stats
           /\ results' = results \o r.results
           /\ ret' = [name |-> s.name, mask |-> s.mask, live |-> s.live]
           /\ termlog' = Logged(termlog, u.terminated)
           /\ reported' = [p \in 1..Len(reported) |->
                  reported[p] + IF masked[p] THEN 1 ELSE 0]
           /\ played' = now
           /\ audit' = audit \o Audited(now, u.self.names, r.results)
    /\ UNCHANGED <<jobs, machines, length, live0, hists, fresh, given, stale, raised>>

NextTie == TieStep

SpecTie == InitScenario /\ [][NextTie]_vars

\* ------------------------------------------- a tick whose external call fails
\* Evaluator.step() in which self.agents[name](...) (line 180) or
\* self.worlds[mask].step(...) (line 181) raises: suggest has run, the
\* assignment of line 181 and the lines after it have not, and the exception
\* leaves step.  The caller may call step again.
step_raises ==
    /\ ~Evaluator_finished(tracker)
    /\ ~raised
    /\ \E failing \in {"agent", "worlds"} :
       \E s \in {suggest(tracker, seats_of(worlds))} :
           tracker' = s.self
    /\ raised' = TRUE
    /\ UNCHANGED <<jobs, machines, worlds, length, stats, results, ret, fresh, live0, termlog,
                   reported, hists, given, played, audit, stale>>

NextFaulty == ScenarioStep \/ step_raises

SpecFaulty == InitScenario /\ [][NextFaulty]_vars

\* ------------------------------------------- a caller driving the Tracker
\* Tracker(n_envs_per, games, max_dispatch) in the hands of a caller that
\* follows the tick protocol: suggest with the seats of the moment, then
\* update with that mask, once.  The target is MaxTarget: the pools of a
\* smaller target are among those a progress matrix leaves of this one.
MaxDispatches == (1..MaxDispatch) \cup {DefaultMaxDispatch}

SeatVectors(n_envs) == [1..n_envs -> {0, 1}]

InitTracker ==
    /\ \E n \in 1..Len(AllNames), md \in MaxDispatches :
         \E g \in GamesInputs(n, MaxTarget, MaxPool) :
            tracker = Tracker__init__(MaxTarget, g, Names(n), md)
    /\ length = MaxLen
    /\ worlds = MockGame_initial(tracker.n_envs, length)
    /\ stats = Evaluator__init__stats(Len(tracker.names))
    /\ results = <<>>
    /\ InitHistory

Suggest ==
    /\ \E seats \in SeatVectors(tracker.n_envs) :
       \E s \in {suggest(tracker, seats)} :
           /\ tracker' = s.self
           /\ ret' = [name |-> s.name, mask |-> s.mask, live |-> s.live]
    /\ fresh' = TRUE
    /\ UNCHANGED <<jobs, machines, worlds, length, stats, results, live0, termlog, reported, hists,
                   given, played, audit, stale, raised>>

Update ==
    /\ fresh
    /\ \E terminal \in [1..PopCount(ret.mask) -> BOOLEAN] :
       \E u \in {update(tracker, terminal, ret.mask)} :
       \E masked \in {masked_of(terminal, ret.mask)} :
           /\ tracker' = u.self
           /\ termlog' = Logged(termlog, u.terminated)
           /\ reported' = [p \in 1..Len(reported) |->
                  reported[p] + IF masked[p] THEN 1 ELSE 0]
    /\ fresh' = FALSE
    /\ ret' = NoRet
    /\ UNCHANGED <<jobs, machines, worlds, length, stats, results, live0, hists,
                   given, played, audit, stale, raised>>

NextTracker == Suggest \/ Update

SpecTracker == InitTracker /\ [][NextTracker]_vars

\* ------------------------------------- a caller that keeps its masks
\* A caller outside the tick protocol: it hands update whatever mask it
\* last got from suggest, a mask it has already handed over included.
InitStale ==
    /\ \E n \in 1..Len(AllNames), md \in MaxDispatches :
         \E g \in GamesInputs(n, MaxTarget, MaxEnvs) :
            tracker = Tracker__init__(MaxTarget, g, Names(n), md)
    /\ length = MaxLen
    /\ worlds = MockGame_initial(tracker.n_envs, length)
    /\ stats = Evaluator__init__stats(Len(tracker.names))
    /\ results = <<>>
    /\ InitHistory

\* Tracker.update(terminal, mask) with the mask held: it has no check and no
\* raise, so it returns whatever the mask selects.
UpdateAgain ==
    /\ ret # NoRet
    /\ termlog[<<-1, -1>>] < MaxStale
    /\ \E terminal \in [1..PopCount(ret.mask) -> BOOLEAN] :
       \E u \in {update(tracker, terminal, ret.mask)} :
       \E masked \in {masked_of(terminal, ret.mask)} :
           /\ tracker' = u.self
           /\ termlog' = Logged(termlog, u.terminated)
           /\ reported' = [p \in 1..Len(reported) |->
                  reported[p] + IF masked[p] THEN 1 ELSE 0]
    /\ stale' = \E p \in 1..Len(ret.mask) : ret.mask[p] /\ tracker.live[p] = <<-1, -1>>
    /\ raised' = FALSE
    /\ fresh' = FALSE
    /\ UNCHANGED <<jobs, machines, worlds, length, stats, results, ret, live0, hists,
                   given, played, audit>>

NextStale == Suggest \/ UpdateAgain

SpecStale == InitStale /\ [][NextStale]_vars

\* ------------------------------------------------------------ test_tracker
\* tracker = Tracker(n_envs_per, games) over zero games, worlds =
\* MockGame.initial(tracker.n_envs, length).
InitTest ==
    /\ \E n \in 1..Len(AllNames), t \in 0..MaxTarget, md \in MaxDispatches :
          tracker = Tracker__init__(t, ZeroGames(n), Names(n), md)
    /\ length \in 1..MaxLen
    /\ worlds = MockGame_initial(tracker.n_envs, length)
    /\ stats = Evaluator__init__stats(Len(tracker.names))
    /\ results = <<>>
    /\ InitHistory

\* The body of `while not tracker.finished()`.
TestTick ==
    /\ ~finished(tracker)
    /\ \E s \in {suggest(tracker, seats_of(worlds))} :
       \E g \in {MockGame_step(worlds, length, s.mask, MockAgent(tracker.names, s.name))} :
       \E u \in {update(s.self, g.terminal, s.mask)} :
       \E masked \in {masked_of(g.terminal, s.mask)} :
           /\ tracker' = u.self
           /\ worlds' = g.world
           /\ hists' = hists \o g.hist
           /\ ret' = [name |-> s.name, mask |-> s.mask, live |-> s.live]
           /\ termlog' = Logged(termlog, u.terminated)
           /\ reported' = [p \in 1..Len(reported) |->
                  reported[p] + IF masked[p] THEN 1 ELSE 0]
    /\ UNCHANGED <<jobs, machines, length, stats, results, fresh, live0,
                   given, played, audit, stale, raised>>

NextTest == TestTick

SpecTest == InitTest /\ [][NextTest]_vars

\* The loop keeps running while its condition holds.
FairSpecTest == SpecTest /\ WF_vars(TestTick)

\* ------------------------------------------------------- the construction
\* Tracker(n_envs_per, games, max_dispatch) as a function of its arguments:
\* the arguments are drawn, then the constructor is applied to them.
NoTracker == [n_envs_per |-> 0, max_dispatch |-> 0, names |-> <<>>, games |-> <<>>,
              init_games |-> 0, live |-> <<>>, n_envs |-> 0]

\* The progress matrices over n agents with entries in 0..t, every cell of
\* the diagonal included, that leave at most cap games to play.
AnyGames(n, t, cap) ==
    {g \in [Cells(n) -> 0..t] :
        SumSeq([k \in 1..(n * n) |->
            IF RowMajor(n)[k][1] = RowMajor(n)[k][2] THEN 0
            ELSE t - g[RowMajor(n)[k]]]) <= cap}

InitConstruct ==
    /\ \E n \in 1..Len(AllNames), t \in 0..MaxTarget, md \in {1, DefaultMaxDispatch} :
         \E g \in AnyGames(n, t, MaxPool) :
            given = [n_envs_per |-> t, games |-> g, names |-> Names(n),
                     max_dispatch |-> md]
    /\ tracker = NoTracker
    /\ length = MaxLen
    /\ worlds = MockGame_initial(0, length)
    /\ stats = Evaluator__init__stats(0)
    /\ results = <<>>
    /\ live0 = <<>>
    /\ termlog = [b \in Bindings(0) |-> 0]
    /\ reported = <<>>
    /\ hists = <<>>
    /\ ret = NoRet
    /\ fresh = FALSE
    /\ played = NothingPlayed(0)
    /\ audit = <<>>
    /\ stale = FALSE
    /\ raised = FALSE
    /\ jobs = <<>>
    /\ machines = <<>>

Construct ==
    /\ tracker = NoTracker
    /\ tracker' = Tracker__init__(given.n_envs_per, given.games, given.names,
                                  given.max_dispatch)
    /\ live0' = tracker'.live
    /\ UNCHANGED <<jobs, machines, worlds, length, stats, results, ret, fresh, termlog, reported,
                   hists, given, played, audit, stale, raised>>

NextConstruct == Construct

SpecConstruct == InitConstruct /\ [][NextConstruct]_vars

\* ------------------------------------ a tracker and the matrix it was given
\* Tracker(n_envs_per, games, max_dispatch) with the caller's arguments kept
\* beside it: any progress matrix with entries in 0..n_envs_per, the
\* diagonal included, then a caller that follows the tick protocol.
InitGiven ==
    /\ \E n \in 1..Len(AllNames), t \in 0..MaxTarget, md \in {1, DefaultMaxDispatch} :
         \E g \in AnyGames(n, t, MaxEnvs) :
            /\ given = [n_envs_per |-> t, games |-> g, names |-> Names(n),
                        max_dispatch |-> md]
            /\ tracker = Tracker__init__(t, g, Names(n), md)
    /\ length = MaxLen
    /\ worlds = MockGame_initial(tracker.n_envs, length)
    /\ stats = Evaluator__init__stats(Len(tracker.names))
    /\ results = <<>>
    /\ live0 = tracker.live
    /\ termlog = [b \in Bindings(Len(tracker.names)) |-> 0]
    /\ reported = [p \in 1..tracker.n_envs |-> 0]
    /\ hists = <<>>
    /\ ret = NoRet
    /\ fresh = FALSE
    /\ played = NothingPlayed(Len(tracker.names))
    /\ audit = <<>>
    /\ stale = FALSE
    /\ raised = FALSE
    /\ jobs = <<>>
    /\ machines = <<>>

NextGiven == Suggest \/ Update

SpecGiven == InitGiven /\ [][NextGiven]_vars

\* ------------------------------------------- Evaluator(...) that may fail
\* Evaluator(worldfunc, agents, games, n_envs_per) with its assertions: the
\* agents, the row labels and the column labels of games are lists of
\* names of any length and order, and the target may be as large as the
\* ceiling asks.
LabelLists ==
    {<<x>> : x \in {"a", "b", "c"}}
        \cup ({<<x, y>> : x, y \in {"a", "b", "c"}} \ {<<x, x>> : x \in {"a", "b", "c"}})

\* The smallest target that fills the ceiling with two agents.
CeilingTarget == MemoryCeiling \div 2

Labels(list) == {list[i] : i \in 1..Len(list)}

\* assert set(agents) == set(games.index); ... == set(games.columns)
Evaluator__init__asserts(agents, index, columns) ==
    /\ Labels(agents) = Labels(index)
    /\ Labels(agents) = Labels(columns)

\* assert (games.index == games.columns).all(), compared as sets instead.
Tracker__init__asserts_as_sets(index, columns) == Labels(index) = Labels(columns)

\* assert (games.index == games.columns).all(); lists of different length do
\* not compare and raise as well.
Tracker__init__asserts(index, columns) == index = columns

\* residual = n_envs_per - self.games, the diagonal at n_envs_per.
residual_of(n_envs_per, games_in, n) ==
    [c \in Cells(n) |-> IF c[1] = c[2] THEN 0 ELSE n_envs_per - games_in[c]]

\* assert residual.sum() < 100*1024*1024
live_indices_asserts(residual, n) == MatSum(residual, n) < MemoryCeiling

InitBuild ==
    /\ \E agents \in LabelLists, index \in LabelLists, columns \in LabelLists :
       \E t \in (0..MaxTarget) \cup {CeilingTarget} :
       \E k \in IF t = CeilingTarget THEN {0} ELSE 0..t :
          given = [n_envs_per |-> t, names |-> index, columns |-> columns,
                   agents |-> agents, max_dispatch |-> DefaultMaxDispatch,
                   games |-> [c \in Idx(Len(index)) \X Idx(Len(columns)) |-> k]]
    /\ tracker = NoTracker
    /\ length = MaxLen
    /\ worlds = MockGame_initial(0, length)
    /\ stats = Evaluator__init__stats(0)
    /\ results = <<>>
    /\ live0 = <<>>
    /\ termlog = [b \in Bindings(0) |-> 0]
    /\ reported = <<>>
    /\ hists = <<>>
    /\ ret = NoRet
    /\ fresh = FALSE
    /\ played = NothingPlayed(0)
    /\ audit = <<>>
    /\ stale = FALSE
    /\ raised = FALSE
    /\ jobs = <<>>
    /\ machines = <<>>

\* Evaluator.__init__, Tracker.__init__ and live_indices: the first failed
\* assertion raises and nothing is built.
Build ==
    /\ tracker = NoTracker /\ ~raised
    /\ IF /\ Evaluator__init__asserts(given.agents, given.names, given.columns)
          /\ Tracker__init__asserts(given.names, given.columns)
          /\ live_indices_asserts(
                 residual_of(given.n_envs_per, given.games, Len(given.names)),
                 Len(given.names))
       THEN /\ tracker' = Tracker__init__(given.n_envs_per, given.games, given.names,
                                          given.max_dispatch)
            /\ worlds' = MockGame_initial(tracker'.n_envs, length)
            /\ stats' = Evaluator__init__stats(Len(given.agents))
            /\ live0' = tracker'.live
            /\ termlog' = [b \in Bindings(Len(tracker'.names)) |-> 0]
            /\ reported' = [p \in 1..tracker'.n_envs |-> 0]
            /\ played' = NothingPlayed(Len(tracker'.names))
            /\ UNCHANGED raised
       ELSE /\ raised' = TRUE
            /\ UNCHANGED <<tracker, worlds, stats, live0, termlog, reported, played>>
    /\ UNCHANGED <<jobs, machines, length, results, ret, fresh, hists, given, audit, stale>>

NextBuild == Build

SpecBuild == InitBuild /\ [][NextBuild]_vars

\* ============================================================ the job manager
\* jittens/manage.py and kittens/manage.py (the same code over objects and
\* over dicts).  A job is [name, status, machine, process, resources], a
\* machine [name, resources, processes]; resources map a key to an amount.
\* jobs and machines are kept in the order of the dicts the source iterates.
Keys == {"gpu", "cpu"}

MachineNames == <<"m1", "m2">>

\* What a job can ask for: any keys, the empty dict included.
Asked == UNION {[K -> 1..MaxCapacity] : K \in SUBSET Keys}

\* What a machine can offer: at least one key.
Offered == UNION {[K -> 1..MaxCapacity] : K \in (SUBSET Keys) \ {{}}}

\* jobs.jobs(status): the jobs of that status, in dict order.
jobs_jobs(js, status) == SelectSeq(js, LAMBDA j : j.status = status)

\* The position of the machine of that name in the dict, 0 when it has none.
Position(ms, name) ==
    IF \E i \in 1..Len(ms) : ms[i].name = name
    THEN CHOOSE i \in 1..Len(ms) : ms[i].name = name
    ELSE 0

decrement(job, machine) ==
    [machine EXCEPT !.resources = [k \in DOMAIN machine.resources |->
        IF k \in DOMAIN job.resources
        THEN machine.resources[k] - job.resources[k]
        ELSE machine.resources[k]]]

RECURSIVE available_loop(_, _)
available_loop(active, ms) ==
    IF active = <<>> THEN ms
    ELSE LET job == Head(active)
             i == Position(ms, job.machine)
         IN  available_loop(Tail(active),
                 IF i # 0 THEN [ms EXCEPT ![i] = decrement(job, ms[i])] ELSE ms)

\* available without its loop: machines.machines() as it is.
available_ignores_active(js, ms) == ms

available(js, ms) == available_loop(jobs_jobs(js, "active"), ms)

viable(asked, offered) ==
    \A k \in DOMAIN asked : ~(k \notin DOMAIN offered) /\ ~(asked[k] > offered[k])

\* The position of the first viable machine, 0 for None.
select(job, ms) ==
    LET ok == {i \in 1..Len(ms) : viable(job.resources, ms[i].resources)}
    IN  IF ok = {} THEN 0 ELSE CHOOSE i \in ok : \A j \in ok : i <= j

\* machines.launch(job, machine): the job's process starts on the machine;
\* its pid is the job's number.
machines_launch(ms, job, name) ==
    [pid |-> job.name,
     machines |-> [i \in 1..Len(ms) |->
         IF ms[i].name = name
         THEN [ms[i] EXCEPT !.processes = @ \cup {job.name}]
         ELSE ms[i]]]

launch(js, ms, job, name) ==
    LET l == machines_launch(ms, job, name)
    IN  [jobs |-> [i \in 1..Len(js) |->
                      IF js[i].name = job.name
                      THEN [js[i] EXCEPT !.status = "active", !.machine = name,
                                         !.process = l.pid]
                      ELSE js[i]],
         machines |-> l.machines]

dead(job, ms) ==
    LET i == Position(ms, job.machine)
    IN  IF i = 0 THEN TRUE
        ELSE IF job.process \notin ms[i].processes THEN TRUE
        ELSE FALSE

\* for job in jobs.jobs('fresh').values(): ... over the jobs that were fresh
\* when the loop began, each against the availability of its own turn.
RECURSIVE manage_fresh(_, _, _)
manage_fresh(todo, js, ms) ==
    IF todo = <<>> THEN [jobs |-> js, machines |-> ms]
    ELSE LET job == Head(todo)
             offers == available(js, ms)
             m == select(job, offers)
         IN  IF m # 0
             THEN LET l == launch(js, ms, job, offers[m].name)
                  IN  manage_fresh(Tail(todo), l.jobs, l.machines)
             ELSE manage_fresh(Tail(todo), js, ms)

\* for job in jobs.jobs('active').values(): if dead(job): status = 'dead'
manage_active(js, ms) ==
    [i \in 1..Len(js) |->
        IF js[i].status = "active" /\ dead(js[i], ms)
        THEN [js[i] EXCEPT !.status = "dead"]
        ELSE js[i]]

\* manage(); check_stalled only logs.
manage(js, ms) ==
    LET launched == manage_fresh(jobs_jobs(js, "fresh"), js, ms)
    IN  [jobs |-> manage_active(launched.jobs, launched.machines),
         machines |-> launched.machines]

\* The machines of the configuration, none of them running a process, and
\* no job submitted.
InitManage ==
    /\ jobs = <<>>
    /\ \E n \in 1..Len(MachineNames) :
         \E offers \in [1..n -> Offered] :
            machines = [i \in 1..n |->
                [name |-> MachineNames[i], resources |-> offers[i], processes |-> {}]]
    /\ tracker = NoTracker
    /\ length = MaxLen
    /\ worlds = MockGame_initial(0, length)
    /\ stats = Evaluator__init__stats(0)
    /\ results = <<>>
    /\ live0 = <<>>
    /\ termlog = [b \in Bindings(0) |-> 0]
    /\ reported = <<>>
    /\ hists = <<>>
    /\ ret = NoRet
    /\ fresh = FALSE
    /\ given = NoArgs
    /\ played = NothingPlayed(0)
    /\ audit = <<>>
    /\ stale = FALSE
    /\ raised = FALSE

ArenaVars == <<tracker, worlds, length, stats, results, ret, fresh, live0,
               termlog, reported, hists, given, played, audit, stale, raised>>

\* submit.submit(cmd, resources=...): a fresh job joins the dict.
submit ==
    /\ Len(jobs) < MaxJobs
    /\ \E asked \in Asked :
         jobs' = Append(jobs, [name |-> Len(jobs) + 1, status |-> "fresh",
                               machine |-> "", process |-> 0, resources |-> asked])
    /\ UNCHANGED <<machines, ArenaVars>>

\* One call of manage() by the manager.
Manage ==
    /\ \E r \in {manage(jobs, machines)} :
         /\ jobs' = r.jobs
         /\ machines' = r.machines
    /\ UNCHANGED ArenaVars

\* The process of a job ends: its pid is no longer visible on its machine.
exits ==
    /\ \E i \in 1..Len(machines) : \E pid \in machines[i].processes :
         machines' = [machines EXCEPT ![i].processes = @ \ {pid}]
    /\ UNCHANGED <<jobs, ArenaVars>>

NextManage == submit \/ Manage \/ exits

SpecManage == InitManage /\ [][NextManage]_vars

\* =================================================================== claims
Tomb == <<-1, -1>>

NAgents == Len(tracker.names)

NameOf(c) == <<tracker.names[c[1] + 1], tracker.names[c[2] + 1]>>

\* The games the records emitted so far report for the names of cell c.
GamesReported(c) ==
    SumSeq([i \in 1..Len(results) |->
        IF results[i].names = NameOf(c) THEN results[i].games ELSE 0])

HadSlots(c) == \E p \in 1..Len(live0) : live0[p] = c

\* C1: when the run has finished, every ordered pair that had slots in the
\* pool has been finalized, and the records for it report exactly
\* n_envs_per completed games.
C1_EveryPairFinalizedAtTarget ==
    finished(tracker) =>
        \A c \in Cells(NAgents) :
            HadSlots(c) =>
                /\ \E i \in 1..Len(results) : results[i].names = NameOf(c)
                /\ GamesReported(c) = tracker.n_envs_per

\* C6: no two of the records emitted over a run are for the same ordered
\* pair of names.
C6_EmittedAtMostOnce ==
    \A i, j \in 1..Len(results) : i # j => results[i].names # results[j].names

\* ------------------------------------------------------------- the Tracker
Ord(name) == CHOOSE i \in Idx(NAgents) : tracker.names[i + 1] = name

Slots == 1..Len(tracker.live)

IsLive(p) == tracker.live[p] # Tomb

\* The number of live slots whose due seat is bound to agent a.
DueCount(a, seats) ==
    Cardinality({p \in Slots : IsLive(p) /\ tracker.live[p][seats[p] + 1] = a})

\* The positions of the set bits of a mask, in slot order.
SetBits(mask) == SelectSeq([p \in 1..Len(mask) |-> p], LAMBDA p : mask[p])

\* C2: when test_tracker's loop has ended, update has returned exactly
\* n_envs_per terminated slots for every ordered pair of different agents
\* and none for a pair (i, i) (nor a tombstone); and, as the test asserts of
\* games of two moves or more, every ended game was played by at most two
\* agents and the games opened by (i, j) number n_envs_per.
C2_TestTrackerPlaysEveryPair ==
    finished(tracker) =>
        /\ \A c \in Cells(NAgents) :
              termlog[c] = IF c[1] # c[2] THEN tracker.n_envs_per ELSE 0
        /\ termlog[Tomb] = 0
        /\ length >= 2 =>
              /\ \A i \in 1..Len(hists) :
                    Cardinality({hists[i][m] : m \in 1..length}) <= 2
              /\ \A c \in Cells(NAgents) :
                    Cardinality({i \in 1..Len(hists) : <<hists[i][1], hists[i][2]>> = c})
                       = IF c[1] # c[2] THEN tracker.n_envs_per ELSE 0

C2_Witness ==
    /\ finished(tracker)
    /\ NAgents = 3 /\ tracker.n_envs_per = 2 /\ length = 2
    /\ tracker.max_dispatch = 2
    /\ Len(hists) = 12

\* C3: whatever the seats, the mask suggest returns has at most max_dispatch
\* set bits, each a live slot whose due seat is bound to the returned name
\* (so the agent moving is one of the slot's two), and the returned bindings
\* are those of the set bits, in slot order.
C3_SuggestMaskWithinCapAndDue ==
    \A seats \in SeatVectors(tracker.n_envs) :
        \A s \in {suggest(tracker, seats)} :
        \A bits \in {SetBits(s.mask)} :
            /\ Len(s.mask) = tracker.n_envs
            /\ PopCount(s.mask) <= tracker.max_dispatch
            /\ \A p \in Slots : s.mask[p] =>
                  /\ IsLive(p)
                  /\ tracker.live[p] = live0[p]
                  /\ tracker.names[tracker.live[p][seats[p] + 1] + 1] = s.name
                  /\ Ord(s.name) \in {live0[p][1], live0[p][2]}
            /\ Len(s.live) = Len(bits)
            /\ \A k \in 1..Len(bits) : s.live[k] = tracker.live[bits[k]]

C3_Witness ==
    /\ fresh
    /\ PopCount(ret.mask) >= 1
    /\ PopCount(ret.mask) = tracker.max_dispatch - 1
    /\ \E p \in Slots : ~IsLive(p)
    /\ \E p \in Slots : IsLive(p) /\ ~ret.mask[p] /\ Ord(ret.name) \in {tracker.live[p][1], tracker.live[p][2]}

\* C4: the agent suggest names has the largest count of due live slots, and
\* is the earliest in the identity list of the agents with that count.
C4_SuggestsEarliestBusiestAgent ==
    \A seats \in SeatVectors(tracker.n_envs) :
        \A a \in {Ord(suggest(tracker, seats).name)} :
            \A b \in Idx(NAgents) :
               /\ DueCount(b, seats) <= DueCount(a, seats)
               /\ b < a => DueCount(b, seats) < DueCount(a, seats)

C4_Witness ==
    /\ fresh
    /\ \E p \in Slots : ~IsLive(p)
    /\ \E seats \in SeatVectors(tracker.n_envs) :
          \E a, b \in Idx(NAgents) :
             /\ a < b
             /\ DueCount(a, seats) = DueCount(b, seats)
             /\ DueCount(a, seats) >= 1
             /\ suggest(tracker, seats).name = tracker.names[a + 1]
             /\ suggest(tracker, seats).name = ret.name

\* C5: the test loop reaches finished(), whatever max_dispatch >= 1 is.
C5_EventuallyFinished == <>finished(tracker)

\* C7: finished() is true exactly when every slot is a tombstone, which is
\* exactly when every slot has been flagged terminal in an update.
C7_FinishedIffAllTerminated ==
    /\ finished(tracker) <=> \A p \in Slots : ~IsLive(p)
    /\ finished(tracker) <=> \A p \in Slots : reported[p] >= 1
    /\ Evaluator_finished(tracker) <=> finished(tracker)

C7_Witness ==
    /\ finished(tracker)
    /\ tracker.n_envs = 3
    /\ \A p \in Slots : reported[p] = 1

\* C8: in every step the pool keeps its size, a tombstone stays one, the
\* number of live slots does not grow, a mask just returned by suggest
\* holds no tombstone, and no slot has been turned terminated twice.
C8_SlotLifecycleMonotone ==
    [][ /\ Len(tracker'.live) = Len(tracker.live)
        /\ tracker'.n_envs = tracker.n_envs
        /\ \A p \in Slots : ~IsLive(p) => tracker'.live[p] = Tomb
        /\ Cardinality({p \in Slots : tracker'.live[p] # Tomb})
              <= Cardinality({p \in Slots : IsLive(p)})
        /\ fresh' => \A p \in Slots : ret'.mask[p] => tracker'.live[p] # Tomb
        /\ \A p \in Slots : reported'[p] <= 1 ]_vars

C8_Witness ==
    /\ fresh
    /\ PopCount(ret.mask) >= 1
    /\ \E p \in Slots : ~IsLive(p) /\ reported[p] = 1
    /\ \E p \in Slots : IsLive(p) /\ ~ret.mask[p]

\* C9: update, given suggest's mask and one flag per dispatched slot, turns
\* the dispatched slots flagged true (all live before) into tombstones,
\* returns the bindings they had, in slot order, and leaves every other slot
\* and every other field of the tracker as it was.
C9_UpdateTerminatesExactlyTheFlagged ==
    \A seats \in SeatVectors(tracker.n_envs) :
        \A s \in {suggest(tracker, seats)} :
        \A bits \in {SetBits(s.mask)} :
            \A terminal \in [1..Len(bits) -> BOOLEAN] :
               \A u \in {update(tracker, terminal, s.mask)} :
               \A flagged \in {{bits[k] : k \in {j \in 1..Len(bits) : terminal[j]}}} :
               \A hit \in {SelectSeq(bits, LAMBDA p : p \in flagged)} :
                   /\ \A p \in Slots :
                        IF p \in flagged
                        THEN IsLive(p) /\ u.self.live[p] = Tomb
                        ELSE u.self.live[p] = tracker.live[p]
                   /\ u.terminated = [k \in 1..Len(hit) |-> tracker.live[hit[k]]]
                   /\ [u.self EXCEPT !.live = tracker.live] = tracker

\* After an update that terminated one slot and left two others, of one
\* matchup (so dispatched together), live.
C9_Witness ==
    /\ ~fresh
    /\ \E p, q, r \in Slots :
          /\ ~IsLive(p) /\ reported[p] = 1
          /\ q # r /\ IsLive(q) /\ IsLive(r)
          /\ tracker.live[q] = tracker.live[r]

\* C10: suggest leaves the tracker as it was, so a second suggest with the
\* same seats returns the same; report leaves it too; and the tracker
\* changes only in a step that is an update.
C10_OnlyUpdateMutates ==
    /\ [](\A seats \in SeatVectors(tracker.n_envs) :
            \A s \in {suggest(tracker, seats)} :
            \A again \in {suggest(s.self, seats)} :
                /\ s.self = tracker
                /\ again.name = s.name /\ again.mask = s.mask /\ again.live = s.live
                /\ report(s.self).self = tracker)
    /\ [][tracker' # tracker => fresh /\ ~fresh']_vars

C10_Witness ==
    /\ fresh
    /\ PopCount(ret.mask) >= 2
    /\ \E p \in Slots : ~IsLive(p)

\* ------------------------------------------------------- the construction
Constructed == tracker # NoTracker

\* The progress matrix handed to the constructor, a self-play pair counting
\* as satisfied (C12).
Progress(c) == IF c[1] = c[2] THEN given.n_envs_per ELSE given.games[c]

Residual(c) == given.n_envs_per - Progress(c)

SlotsBoundTo(c) == Cardinality({p \in Slots : tracker.live[p] = c})

\* C11: for every progress matrix with entries between 0 and the target,
\* the constructed pool holds exactly target - G[i][j] slots bound to each
\* ordered pair (i, j) (none for a pair (i, i), whose progress counts as
\* the target), the live-slot count is the sum of the residuals, every slot
\* is live, and no slot is bound to a pair whose residual is zero.
C11_PoolIsTheResidual ==
    Constructed =>
        /\ \A c \in Cells(Len(given.names)) : SlotsBoundTo(c) = Residual(c)
        /\ tracker.n_envs = Len(tracker.live)
        /\ tracker.n_envs =
              SumSeq([k \in 1..(Len(given.names) * Len(given.names)) |->
                         Residual(RowMajor(Len(given.names))[k])])
        /\ \A p \in Slots :
              /\ tracker.live[p] \in Cells(Len(given.names))
              /\ Residual(tracker.live[p]) > 0

\* A pool with two slots for one pair, one for another and none for a
\* third, whose progress was already at the target.
C11_Witness ==
    /\ Constructed
    /\ Len(given.names) = 3 /\ given.n_envs_per = 2
    /\ \E b, c, d \in OffDiagonal(3) :
          /\ given.games[b] = 0 /\ SlotsBoundTo(b) = 2
          /\ given.games[c] = 1 /\ SlotsBoundTo(c) = 1
          /\ given.games[d] = 2 /\ SlotsBoundTo(d) = 0

\* C12: whatever the supplied progress matrix holds on its diagonal, the
\* constructed pool has no slot bound to a pair (i, i): the tracker counts
\* every self-play pair as played to the target, and no mask suggest can
\* return on it dispatches a self-play slot.
C12_NoSelfPlaySlot ==
    Constructed =>
        /\ \A p \in Slots : tracker.live[p][1] # tracker.live[p][2]
        /\ \A i \in Idx(NAgents) : tracker.games[<<i, i>>] = tracker.n_envs_per
        /\ \A seats \in SeatVectors(tracker.n_envs) :
              \A s \in {suggest(tracker, seats)} :
                 \A k \in 1..Len(s.live) : s.live[k][1] # s.live[k][2]

\* Three agents whose supplied diagonal holds 0, 1 and 2 against a target of
\* 2, and a pool of three slots.
C12_Witness ==
    /\ Constructed
    /\ Len(given.names) = 3 /\ given.n_envs_per = 2
    /\ given.games[<<0, 0>>] = 0 /\ given.games[<<1, 1>>] = 1
    /\ given.games[<<2, 2>>] = 2
    /\ tracker.n_envs = 3

\* ----------------------------------------------------------- the Evaluator
\* C13: every record Evaluator.step has emitted for names (a, b) carries
\* what the slots bound to (a, b) had been dealt up to that tick: per seat
\* the number of their transitions with a reward of exactly 1, and as moves
\* the number of times one of them was advanced.
C13_RecordAggregatesItsOwnPair ==
    \A i \in 1..Len(results) :
        /\ results[i].wins = audit[i].wins
        /\ results[i].moves = audit[i].moves

\* The completed games of a pair: those it was constructed with and those
\* update has since reported terminated.
Completed(c) == tracker.games[c] + termlog[c]

\* C14: after every tick, a pair whose completed games have reached the
\* target in the run has its record among those returned so far, whatever
\* rewards its games ended with, and every record returned names a pair
\* whose completed games have reached the target.
C14_FinalizedWhenCompletedReachesTarget ==
    /\ \A c \in OffDiagonal(NAgents) :
          (HadSlots(c) /\ Completed(c) >= tracker.n_envs_per) =>
              \E i \in 1..Len(results) : results[i].names = NameOf(c)
    /\ \A i \in 1..Len(results) :
          Completed(Named(tracker.names, results[i])) >= tracker.n_envs_per

\* C15: the accumulator of a finalized pair is closed: its wins stay at the
\* reset value and its moves at the total the record was emitted with,
\* whatever later ticks bring.
C15_FinalizedAccumulatorClosed ==
    \A i \in 1..Len(results) :
        \A c \in {Named(tracker.names, results[i])} :
            /\ stats.wins[c] = <<-1, -1>>
            /\ stats.moves[c] = results[i].moves

\* The moves counted over all cells.
MovesCounted == MatSum(stats.moves, NAgents)

\* The slot advances performed: per binding, the times a slot bound to it
\* was in a dispatched mask.
Advances ==
    SumSeq([k \in 1..(NAgents * NAgents) |-> played[RowMajor(NAgents)[k]].moves])

\* C16: every tick raises the move counters, summed over all cells, by
\* exactly the number of set bits of the mask it dispatched, and so their
\* total is always the number of slot advances performed.
C16_EveryAdvanceCountedOnce ==
    /\ [](MovesCounted = Advances)
    /\ [][\A s \in {suggest(tracker, seats_of(worlds))} :
            MatSum(stats'.moves, NAgents) = MovesCounted + PopCount(s.mask)]_vars

\* Two slots of one pair dispatched together, twice over.
C16_Witness ==
    /\ \E c \in Cells(NAgents) : stats.moves[c] = 4
    /\ MovesCounted = 4
    /\ tracker.n_envs = 2

\* Four agents, a target of 2, no progress yet, games of one move.
C17_Scenario ==
    /\ NAgents = 4 /\ tracker.n_envs_per = 2 /\ length = 1
    /\ \A c \in OffDiagonal(NAgents) : tracker.games[c] = 0

\* The records emitted for the names of cell c.
RecordsOf(c) == {i \in 1..Len(results) : results[i].names = NameOf(c)}

\* C17: in the scenario the run reaches finished(), and then each of the 12
\* ordered pairs of different agents has been finalized, with exactly 2
\* games, 2 wins for seat 0 and none for seat 1.
C17_ScenarioFinalizesEveryPair ==
    C17_Scenario ~>
        /\ finished(tracker)
        /\ Cardinality(OffDiagonal(NAgents)) = 12
        /\ Len(results) = 12
        /\ \A c \in OffDiagonal(NAgents) :
              /\ Cardinality(RecordsOf(c)) = 1
              /\ \A i \in RecordsOf(c) :
                    results[i].games = 2 /\ results[i].wins = <<2, 0>>

C17_Witness ==
    /\ C17_Scenario
    /\ finished(tracker)
    /\ tracker.n_envs = 24
    /\ Len(results) = 12

\* ------------------------------------------------------------ a target of 0
\* C18: with a target of 0 the constructed pool is empty, finished() is
\* true from the start, and the loop `while not tracker.finished()` has no
\* tick to run: nothing is ever dispatched or terminated.
C18_ZeroTargetRunsNoTick ==
    tracker.n_envs_per = 0 =>
        /\ tracker.live = <<>> /\ tracker.n_envs = 0
        /\ finished(tracker)
        /\ ~ENABLED TestTick
        /\ hists = <<>>
        /\ \A b \in DOMAIN termlog : termlog[b] = 0

C18_Witness ==
    /\ tracker.n_envs_per = 0
    /\ NAgents = 3
    /\ tracker.live = <<>>
    /\ finished(tracker)

\* ------------------------------------------------------------------ report
\* The slots update has turned terminated since construction.
TerminatedSoFar == SumSeq(reported)

\* C19: report() returns as completed the number of games completed since
\* construction, one for every slot update has terminated, and as remaining
\* the games the pool was built for less those.
C19_ReportCountsTerminated ==
    \A r \in {report(tracker)} :
        /\ r.done = TerminatedSoFar
        /\ r.remaining = Len(live0) - TerminatedSoFar

\* ------------------------------------------------------------ a stale mask
\* C20: an update whose mask holds an already terminated slot does not
\* return normally: it raises.
C20_StaleMaskRaises == stale => raised

\* C21: update applied a second time with the same mask and the same flags
\* leaves the tracker as the first application left it: the same slots are
\* tombstones, none is revived, no other is terminated, and every binding
\* is the same.  The mask is whatever the caller holds, one it has handed
\* over before included.
C21_UpdateIdempotent ==
    ret # NoRet =>
        \A terminal \in [1..PopCount(ret.mask) -> BOOLEAN] :
            \A once \in {update(tracker, terminal, ret.mask).self} :
            \A twice \in {update(once, terminal, ret.mask).self} :
                /\ twice = once
                /\ \A p \in Slots : (twice.live[p] = Tomb) <=> (once.live[p] = Tomb)
                /\ \A p \in Slots : twice.live[p] = once.live[p]

\* After an update with a mask that had been handed over before and whose
\* slot was flagged again, another slot being live.
C21_Witness ==
    /\ stale
    /\ termlog[Tomb] >= 1
    /\ \E p \in Slots : reported[p] >= 2
    /\ \E p \in Slots : IsLive(p)

\* --------------------------------------------------- a construction failing
\* The rows and the columns of the matrix carry the same labels in the same
\* order, and these are exactly the agents.
IndexMatches ==
    /\ given.names = given.columns
    /\ Labels(given.names) = Labels(given.agents)

\* The games left to play over the pairs of different agents.
PoolWanted ==
    SumSeq([k \in 1..(Len(given.names) * Len(given.names)) |->
        LET c == RowMajor(Len(given.names))[k]
        IN  IF c[1] = c[2] THEN 0 ELSE given.n_envs_per - given.games[c]])

C23_FailedTickLeavesTrackerAlone ==
    [][(raised' /\ ~raised) =>
          /\ tracker' = tracker
          /\ tracker'.live = tracker.live /\ tracker'.games = tracker.games
          /\ worlds' = worlds
          /\ stats' = stats
          /\ results' = results]_vars

\* A tick failed in the middle of a run: games have ended, others are live,
\* and the run went on to end more.
C23_Witness ==
    /\ raised
    /\ \E p \in Slots : ~IsLive(p)
    /\ \E p \in Slots : IsLive(p)
    /\ Len(results) >= 1

\* ------------------------------------------------------ any rule for ties
\* The cell the transitions of the slots bound to c are added to.
CellOf(c) == Unravel(NAgents, Raveled(NAgents, c))

\* C24: over the trivial game, whose outcome per slot does not depend on
\* the order of the ticks, the totals at finished() are a function of the
\* construction alone, whichever of the agents with the largest due count
\* each tick served: per pair, its completed games are the residual r, the
\* moves of its slots r times the game's length, the wins r for seat 0 and
\* none for seat 1, and its record, emitted once when r is the target,
\* carries these.  So any two rules for ties end with the same totals.
C24_TotalsIndependentOfTieBreak ==
    finished(tracker) =>
        \A c \in OffDiagonal(NAgents) :
            \A r \in {tracker.n_envs_per - tracker.games[c]} :
            \A at \in {CellOf(c)} :
                /\ termlog[c] = r
                /\ played[c] = [wins |-> <<r, 0>>, moves |-> r * length]
                /\ stats.moves[at] = r * length
                /\ IF r = tracker.n_envs_per /\ r > 0
                   THEN /\ stats.wins[at] = <<-1, -1>>
                        /\ \E i \in 1..Len(results) :
                              /\ Named(tracker.names, results[i]) = at
                              /\ results[i].wins = <<r, 0>>
                              /\ results[i].moves = r * length
                              /\ results[i].games = r
                              /\ \A j \in 1..Len(results) :
                                    results[j].names = results[i].names => j = i
                   ELSE /\ stats.wins[at] = <<r, 0>>
                        /\ \A i \in 1..Len(results) :
                              Named(tracker.names, results[i]) # at

\* A finished run of four agents that served the first agent last, which
\* argmax's rule never does.
C24_Witness ==
    /\ finished(tracker)
    /\ NAgents = 4 /\ tracker.n_envs_per = 2 /\ length = 1
    /\ tracker.n_envs = 24
    /\ ret.name = "a"
    /\ Len(results) = 12

\* ------------------------------------------------------------ the batch
Min(x, y) == IF x <= y THEN x ELSE y

\* C25: the batch is saturated: when the agent suggest names has k due live
\* slots, the mask has exactly min(k, max_dispatch) set bits.
C25_BatchSaturated ==
    \A seats \in SeatVectors(tracker.n_envs) :
        \A s \in {suggest(tracker, seats)} :
            PopCount(s.mask) = Min(DueCount(Ord(s.name), seats), tracker.max_dispatch)

\* The live slots due for agent a, in slot order.
DueSlots(a, seats) ==
    SelectSeq([p \in 1..Len(tracker.live) |-> p],
              LAMBDA p : IsLive(p) /\ tracker.live[p][seats[p] + 1] = a)

\* C26: the mask suggest returns is a prefix, in slot order, of the live
\* slots due for the agent it names: below a set bit, every such slot is
\* set too.
C26_MaskIsPrefixOfDue ==
    \A seats \in SeatVectors(tracker.n_envs) :
        \A s \in {suggest(tracker, seats)} :
        \A due \in {DueSlots(Ord(s.name), seats)} :
            /\ SetBits(s.mask) = SubSeq(due, 1, PopCount(s.mask))
            /\ \A p, q \in Slots :
                  (s.mask[p] /\ q < p /\ IsLive(q)
                     /\ tracker.live[q][seats[q] + 1] = Ord(s.name)) => s.mask[q]

\* A mask just returned that was cut: it holds a slot, and for the seats it
\* was asked with more slots were due than it holds.
C26_Witness ==
    /\ fresh
    /\ PopCount(ret.mask) >= 1
    /\ \E seats \in SeatVectors(tracker.n_envs) :
          /\ suggest(tracker, seats).mask = ret.mask
          /\ DueCount(Ord(ret.name), seats) > PopCount(ret.mask)

\* C27: while a slot is live, the mask suggest returns has a set bit,
\* whatever the seats and whatever positive max_dispatch the tracker has.
C27_MaskNeverEmpty ==
    (\E p \in Slots : IsLive(p)) =>
        \A seats \in SeatVectors(tracker.n_envs) :
            PopCount(suggest(tracker, seats).mask) >= 1

\* ------------------------------------------------- records and their slots
\* C28: for every record emitted for names (a, b), every slot bound to the
\* pair (a, b) is terminated (from the tick of the record on, as a
\* terminated slot stays so).
C28_FinalizedPairHasNoLiveSlot ==
    \A i \in 1..Len(results) :
        \A c \in {Named(tracker.names, results[i])} :
            \A p \in Slots : live0[p] = c => tracker.live[p] = Tomb

\* Some pair resumes from progress short of the target.
Resumed == \E c \in OffDiagonal(NAgents) :
               0 < tracker.games[c] /\ tracker.games[c] < tracker.n_envs_per

\* C29: in a run resumed from partial progress, every pair with games left
\* to play got exactly target - G[i][j] slots, and when the run has finished
\* its record has been emitted, once.
C29_ResumedPairsFinalized ==
    (Resumed /\ finished(tracker)) =>
        \A c \in OffDiagonal(NAgents) :
            tracker.n_envs_per - tracker.games[c] > 0 =>
                /\ Cardinality({p \in 1..Len(live0) : live0[p] = c})
                      = tracker.n_envs_per - tracker.games[c]
                /\ Cardinality(RecordsOf(c)) = 1

\* C30: every slot's binding is either the pair of two different valid
\* agent indices it was constructed with or the tombstone <<-1, -1>>: no
\* step changes a live slot's pair or marks one seat alone.
C30_BindingIsPairOrTombstone ==
    /\ Len(tracker.live) = Len(live0)
    /\ \A p \in Slots :
          /\ live0[p] \in OffDiagonal(NAgents)
          /\ tracker.live[p] \in {live0[p], Tomb}
          /\ (tracker.live[p][1] = -1) <=> (tracker.live[p][2] = -1)

\* After an update: a slot terminated, another of the same pair and one of
\* a different pair still live.
C30_Witness ==
    /\ ~fresh
    /\ \E p, q, r \in Slots :
          /\ ~IsLive(p) /\ IsLive(q) /\ IsLive(r)
          /\ live0[p] = live0[q] /\ live0[r] # live0[q]

\* ------------------------------------------------- the progress matrix
\* C31: for a construction input with entries in 0..target, every entry of
\* the tracker's progress matrix is in 0..target and every diagonal entry
\* is the target, in every state, and no step after construction changes
\* the matrix and the target the caller gave.
C31_ProgressWithinTargetInputKept ==
    /\ [](\A c \in Cells(NAgents) :
            /\ 0 <= tracker.games[c]
            /\ tracker.games[c] <= tracker.n_envs_per
            /\ c[1] = c[2] => tracker.games[c] = tracker.n_envs_per)
    /\ [][given' = given]_vars

\* After an update that terminated a slot: the pair resumed from partial
\* progress, and the caller's diagonal was not the target.
C31_Witness ==
    /\ ~fresh
    /\ \E p \in Slots : ~IsLive(p)
    /\ Resumed
    /\ \E c \in Cells(NAgents) : c[1] = c[2] /\ given.games[c] # tracker.n_envs_per

\* ------------------------------------------------------- the job manager
\* The jobs active on the machine at position m.
ActiveOn(js, m) ==
    {i \in 1..Len(js) : js[i].status = "active" /\ js[i].machine = machines[m].name}

\* What the jobs at the positions S ask of the key k in total.
Requested(js, S, k) ==
    SumSeq([i \in 1..Len(js) |->
        IF i \in S /\ k \in DOMAIN js[i].resources THEN js[i].resources[k] ELSE 0])

\* What the machine at position m offers of the key k.
Capacity(m, k) ==
    IF k \in DOMAIN machines[m].resources THEN machines[m].resources[k] ELSE 0

\* C32: in every state, for every machine and every resource key, the jobs
\* active on the machine ask in total for no more than the machine's
\* capacity; and in every step a job that was fresh and no longer is has
\* become active on a machine whose capacity, less what the jobs active
\* on it before the call and the jobs launched on it earlier in the call
\* ask for, covers every key the job asks for.
C32_NeverOverCommitted ==
    /\ [](\A m \in 1..Len(machines) : \A k \in Keys :
            Requested(jobs, ActiveOn(jobs, m), k) <= Capacity(m, k))
    /\ [][\A i \in 1..Len(jobs) :
            (jobs[i].status = "fresh" /\ jobs'[i].status # "fresh") =>
                /\ jobs'[i].status = "active"
                /\ \E m \in 1..Len(machines) :
                      /\ jobs'[i].machine = machines[m].name
                      /\ \A k \in DOMAIN jobs[i].resources :
                            /\ k \in DOMAIN machines[m].resources
                            /\ jobs[i].resources[k] <=
                                  Capacity(m, k)
                                    - Requested(jobs, ActiveOn(jobs, m), k)
                                    - Requested(jobs', {j \in ActiveOn(jobs', m) :
                                          j < i /\ jobs[j].status = "fresh"}, k)]_vars

\* Two jobs active on one machine fill a key of it, and a job that asks for
\* no more of the key than the machine offers is still fresh.
C32_Witness ==
    \E m \in 1..Len(machines) : \E k \in Keys :
        /\ Cardinality(ActiveOn(jobs, m)) = 2
        /\ \A i \in ActiveOn(jobs, m) : k \in DOMAIN jobs[i].resources
        /\ Requested(jobs, ActiveOn(jobs, m), k) = Capacity(m, k)
        /\ \E i \in 1..Len(jobs) :
              /\ jobs[i].status = "fresh"
              /\ k \in DOMAIN jobs[i].resources
              /\ jobs[i].resources[k] <= Capacity(m, k)

====
